---- MODULE Spec2Model ----
(***************************************************************************)
(* A model of class Toniq of HamilToniQ/benchmarking.py.                   *)
(*                                                                         *)
(* State: the attribute dictionary of one Toniq object (self), the last    *)
(* call made on it (op, args), what that call did (ret, reads, rand,       *)
(* accuracy_list) and the last scorer build_scoring_function returned (f). *)
(*                                                                         *)
(* Numbers.  Matrix entries and random draws are integers.  Accuracy       *)
(* samples and scorer inputs are integers counted in steps of              *)
(* 1/(n_boxes*Grid), so the bin edge np.linspace(0, 1, 201)[i] is the      *)
(* integer i*Grid and 1.0 is One.  Histogram fractions, cumulative sums    *)
(* and interpolated scores are exact fractions [n, d] in lowest terms with *)
(* the IEEE special values kept apart: d = 0 is NaN (n = 0) or +-inf       *)
(* (n = +-1).  The rounding of binary floating point is not modelled.      *)
(***************************************************************************)
EXTENDS Integers, Sequences, FiniteSets, TLC

VARIABLES self, op, args, ret, reads, rand, accuracy_list, f

vars == <<self, op, args, ret, reads, rand, accuracy_list, f>>

(***************************************************************************)
(* Bounds of the model.                                                    *)
(***************************************************************************)
MaxDim == 2        \* largest matrix dimension drawn
MaxVal == 2        \* get_Q_matirx: lower and upper are drawn from 0..MaxVal
MaxSamples == 3    \* longest accuracy data set drawn
Grid == 2          \* sample positions distinguished inside one histogram bin
MaxRuns == 2       \* largest n_reps / n_points passed to the QAOA runner

\* n_boxes = 200 (lines 137 and 160).
n_boxes == 200

\* 1.0 in sample units.
One == n_boxes * Grid

(***************************************************************************)
(* Exact fractions with NaN and infinities.                                *)
(***************************************************************************)
Abs(a) == IF a < 0 THEN -a ELSE a

Sign(a) == IF a < 0 THEN -1 ELSE IF a = 0 THEN 0 ELSE 1

RECURSIVE GCD(_, _)
GCD(a, b) == IF b = 0 THEN a ELSE GCD(b, a % b)

NaN == [n |-> 0, d |-> 0]

Frac(a, b) ==
    IF b = 0 THEN [n |-> Sign(a), d |-> 0]
    ELSE LET g == GCD(Abs(a), Abs(b))
         IN  [n |-> (Sign(b) * a) \div g, d |-> Abs(b) \div g]

IsNaN(v) == v.d = 0 /\ v.n = 0

IsFinite(v) == v.d # 0

FAdd(a, b) ==
    IF IsNaN(a) \/ IsNaN(b) THEN NaN
    ELSE IF a.d = 0 THEN (IF b.d = 0 /\ b.n # a.n THEN NaN ELSE a)
    ELSE IF b.d = 0 THEN b
    ELSE Frac(a.n * b.d + b.n * a.d, a.d * b.d)

FSub(a, b) == FAdd(a, [n |-> -b.n, d |-> b.d])

FMul(a, b) ==
    IF IsNaN(a) \/ IsNaN(b) THEN NaN
    ELSE IF a.d = 0 \/ b.d = 0
         THEN (IF a.n = 0 \/ b.n = 0 THEN NaN
               ELSE [n |-> Sign(a.n) * Sign(b.n), d |-> 0])
    ELSE Frac(a.n * b.n, a.d * b.d)

\* Floating-point division as numpy does it: x/0 is +-inf, 0/0 is NaN, and
\* neither raises.
FDiv(a, b) ==
    IF IsNaN(a) \/ IsNaN(b) THEN NaN
    ELSE IF b.d = 0 THEN (IF a.d = 0 THEN NaN ELSE Frac(0, 1))
    ELSE IF a.d = 0 THEN [n |-> a.n * (IF b.n < 0 THEN -1 ELSE 1), d |-> 0]
    ELSE Frac(a.n * b.d, a.d * b.n)

FLeq(a, b) == IsFinite(a) /\ IsFinite(b) /\ a.n * b.d <= b.n * a.d

(***************************************************************************)
(* Outcomes of a call.                                                     *)
(***************************************************************************)
None == [kind |-> "none"]

Return(v) == [kind |-> "return", val |-> v]

Raise(e) == [kind |-> "raise", val |-> e]

NoList == [bound |-> FALSE, val |-> <<>>]

(***************************************************************************)
(* Toniq.__init__                                                          *)
(***************************************************************************)
n_reps == 1000

ToniqInit == [backend_list |-> <<>>, n_reps |-> n_reps]

HasAttr(obj, name) == name \in DOMAIN obj

SetAttr(obj, name, v) ==
    [a \in DOMAIN obj \cup {name} |-> IF a = name THEN v ELSE obj[a]]

(***************************************************************************)
(* Toniq.get_Q_matirx                                                      *)
(***************************************************************************)
\* mat.reshape(dim, dim): row-major.
reshape(flat, dim) == [i \in 1..dim |-> [j \in 1..dim |-> flat[(i - 1) * dim + j]]]

triu(mat) ==
    [i \in DOMAIN mat |-> [j \in DOMAIN mat |-> IF j >= i THEN mat[i][j] ELSE 0]]

transpose(mat) == [i \in DOMAIN mat |-> [j \in DOMAIN mat |-> mat[j][i]]]

diag_of_diagonal(mat) ==
    [i \in DOMAIN mat |-> [j \in DOMAIN mat |-> IF i = j THEN mat[i][i] ELSE 0]]

\* mat += mat.T, the diagonal not taken off.
symmetrize_NoDiagFix(mat) ==
    [i \in DOMAIN mat |-> [j \in DOMAIN mat |-> mat[i][j] + transpose(mat)[i][j]]]

\* mat += mat.T - np.diag(mat.diagonal()); the right-hand side is evaluated
\* into a temporary before the in-place addition.
symmetrize(mat) ==
    LET rhs == [i \in DOMAIN mat |-> [j \in DOMAIN mat |->
                    transpose(mat)[i][j] - diag_of_diagonal(mat)[i][j]]]
    IN  [i \in DOMAIN mat |-> [j \in DOMAIN mat |-> mat[i][j] + rhs[i][j]]]

Q_matrix(draws, dim) == symmetrize(triu(reshape(draws, dim)))

\* The hardness computed at lines 53-58 is only printed: numpy scalar
\* divisions by zero and square roots of negatives give inf/nan with a
\* warning, never an exception, so the call always returns mat.
get_Q_matirx(dim, lower, upper) ==
    /\ \E draws \in [1..(dim * dim) -> lower..upper] :
          /\ rand' = draws
          /\ ret' = Return(Q_matrix(draws, dim))
    /\ op' = "get_Q_matirx"
    /\ args' = [dim |-> dim, lower |-> lower, upper |-> upper]
    /\ reads' = {}
    /\ accuracy_list' = NoList
    /\ UNCHANGED <<self, f>>

(***************************************************************************)
(* Toniq.get_ground_state                                                  *)
(***************************************************************************)
RECURSIVE Pow2(_)
Pow2(k) == IF k = 0 THEN 1 ELSE 2 * Pow2(k - 1)

\* utility.all_quantum_states: the 2^n binary vectors in increasing decimal
\* order; bit i of the index is component i of the vector.
all_quantum_states(n) ==
    [k \in 1..Pow2(n) |-> [i \in 1..n |-> ((k - 1) \div Pow2(i - 1)) % 2]]

RECURSIVE SumTo(_, _)
SumTo(g, k) == IF k = 0 THEN 0 ELSE SumTo(g, k - 1) + g[k]

\* np.dot of two vectors.
dot(a, b) == SumTo([i \in DOMAIN a |-> a[i] * b[i]], Len(a))

\* np.dot of a matrix and a vector.
matvec(Q, x) == [i \in DOMAIN Q |-> dot(Q[i], x)]

RECURSIVE ScanMin(_, _, _)
\* The position of the smallest value among list[1..k-1] is best; a later
\* value replaces it only when strictly smaller.
ScanMin(list, k, best) ==
    IF k > Len(list) THEN best
    ELSE ScanMin(list, k + 1, IF list[k] < list[best] THEN k ELSE best)

\* The last occurrence of the minimum.
argmin_Last(list) ==
    (CHOOSE k \in DOMAIN list :
        /\ \A j \in DOMAIN list : list[k] <= list[j]
        /\ \A j \in DOMAIN list : j > k => list[j] > list[k]) - 1

\* np.argmax in place of np.argmin.
argmin_Max(list) ==
    (CHOOSE k \in DOMAIN list :
        /\ \A j \in DOMAIN list : list[k] >= list[j]
        /\ \A j \in DOMAIN list : j < k => list[j] < list[k]) - 1

\* np.argmin: the 0-based index of the first occurrence of the minimum.
argmin(list) == ScanMin(list, 2, 1) - 1

RECURSIVE bin(_, _)
\* f"{bin(dec)[2:]:0>{width}}": binary digits, most significant first, padded
\* with zeros on the left to width (longer if dec needs more digits).
bin(dec, width) ==
    IF width <= 1 /\ dec < 2 THEN <<dec>>
    ELSE Append(bin(dec \div 2, width - 1), dec % 2)

ground_state(Q) ==
    LET n_qubits == Len(Q)
        states == all_quantum_states(n_qubits)
        energy_list == [k \in DOMAIN states |-> dot(states[k], matvec(Q, states[k]))]
        dec_min == argmin(energy_list)
    IN  [bin_state |-> bin(dec_min, n_qubits),
         dec_state |-> dec_min,
         energy |-> energy_list[dec_min + 1]]

get_ground_state(Q) ==
    /\ op' = "get_ground_state"
    /\ args' = [Q |-> Q]
    /\ ret' = Return(ground_state(Q))
    /\ reads' = {}
    /\ rand' = <<>>
    /\ accuracy_list' = NoList
    /\ UNCHANGED <<self, f>>

(***************************************************************************)
(* The histogram and the cumulative curve (get_reference lines 137-144,    *)
(* build_scoring_function lines 160-164).                                  *)
(***************************************************************************)
\* np.linspace(0, 1, n_boxes + 1)
hist_x == [i \in 1..(n_boxes + 1) |-> (i - 1) * Grid]

\* Every bin half-open, the last one too.
InBin_HalfOpen(v, i, bins) == bins[i] <= v /\ v < bins[i + 1]

\* np.histogram: every bin is half-open except the last, which also holds
\* its right edge; values outside [bins[first], bins[last]] are not counted.
InBin(v, i, bins) ==
    /\ bins[i] <= v
    /\ \/ v < bins[i + 1]
       \/ i = Len(bins) - 1 /\ v = bins[i + 1]

histogram(data, bins) ==
    [i \in 1..(Len(bins) - 1) |->
        Cardinality({k \in DOMAIN data : InBin(data[k], i, bins)})]

\* np.divide(hist_y, total): true division, element by element.
divide(hist_y, total) ==
    [i \in DOMAIN hist_y |-> FDiv(Frac(hist_y[i], 1), Frac(total, 1))]

RECURSIVE RunningSums(_, _, _, _)
\* The running sums of h[lo..hi], continuing from the sum carry of the
\* entries before lo; every sum adds one entry to the sum before it.
RunningSums(h, lo, hi, carry) ==
    IF lo = hi THEN <<FAdd(carry, h[lo])>>
    ELSE LET mid == (lo + hi) \div 2
             left == RunningSums(h, lo, mid, carry)
         IN  left \o RunningSums(h, mid + 1, hi, left[Len(left)])

\* np.cumsum: running sums, left to right.
cumsum(h) == IF Len(h) = 0 THEN <<>> ELSE RunningSums(h, 1, Len(h), Frac(0, 1))

\* np.append([0], cumulative_score) of the histogram of data normalised by
\* np.shape(data)[0].
score_curve(data) ==
    <<Frac(0, 1)>> \o cumsum(divide(histogram(data, hist_x), Len(data)))

(***************************************************************************)
(* Toniq.build_scoring_function and the scorer it returns.                 *)
(***************************************************************************)
NoScorer == [built |-> FALSE, x |-> <<>>, y |-> <<>>]

\* interpolate.interp1d(x, y, kind="linear"): the object keeps x and y.
interp1d(x, y) == [built |-> TRUE, x |-> x, y |-> y]

\* np.searchsorted(x, v), side left: how many entries of x are below v.
searchsorted(x, v) == Cardinality({i \in DOMAIN x : x[i] < v})

clip(v, lo, hi) == IF v < lo THEN lo ELSE IF v > hi THEN hi ELSE v

\* Calling the interp1d object: bounds_error is on by default, so a point
\* outside [x[0], x[-1]] raises ValueError; inside, the two bracketing
\* control points are joined by a straight line.
interp1d_call(g, x_new) ==
    IF x_new < g.x[1] \/ x_new > g.x[Len(g.x)]
    THEN Raise("ValueError")
    ELSE LET hi == clip(searchsorted(g.x, x_new), 1, Len(g.x) - 1) + 1
             lo == hi - 1
             slope == FDiv(FSub(g.y[hi], g.y[lo]), Frac(g.x[hi] - g.x[lo], 1))
         IN  Return(FAdd(FMul(slope, Frac(x_new - g.x[lo], 1)), g.y[lo]))

\* The n_boxes parameter is overwritten by 200 at line 160 and plays no part.
build_scoring_function(data) ==
    /\ op' = "build_scoring_function"
    /\ args' = [data |-> data]
    /\ f' = interp1d(hist_x, score_curve(data))
    /\ ret' = Return(f')
    /\ reads' = {}
    /\ rand' = <<>>
    /\ accuracy_list' = NoList
    /\ UNCHANGED self

\* A call f(x) of the scorer last returned.
score(x) ==
    /\ f.built
    /\ op' = "f"
    /\ args' = [x |-> x]
    /\ ret' = interp1d_call(f, x)
    /\ reads' = {}
    /\ rand' = <<>>
    /\ accuracy_list' = NoList
    /\ UNCHANGED <<self, f>>

(***************************************************************************)
(* Toniq.get_results.  BackendSampler, COBYLA, QAOA and Q_to_paulis are    *)
(* external; what the QAOA runs return (results) is chosen by the caller   *)
(* of this operator.  An eigenstate maps state indices to probability      *)
(* mass, in sample units.                                                  *)
(***************************************************************************)
Eigenstates ==
    {<<>>} \cup {[k \in {i} |-> One] : i \in 0..1}
           \cup {[k \in {0, 1} |-> One \div 2]}

RunResults(reps) == [1..reps -> Eigenstates]

\* What a call does to the object obj: the attributes afterwards, the outcome
\* and the attributes of self it read.
get_results_effect(obj, results) ==
    IF ~HasAttr(obj, "maxiter")                       \* line 98
    THEN [self |-> obj, ret |-> Raise("AttributeError"), reads |-> {"maxiter"}]
    ELSE LET cleared == SetAttr(SetAttr(obj, "param_list", <<>>),
                                "energy_list", <<>>)  \* lines 99-100
         IN  IF ~HasAttr(obj, "n_layers")             \* line 104
             THEN [self |-> cleared, ret |-> Raise("AttributeError"),
                   reads |-> {"maxiter", "n_layers"}]
             ELSE IF ~HasAttr(obj, "Q")               \* line 106
             THEN [self |-> cleared, ret |-> Raise("AttributeError"),
                   reads |-> {"maxiter", "n_layers", "Q"}]
             ELSE [self |-> cleared, ret |-> Return(results),
                   reads |-> {"maxiter", "n_layers", "Q"}]

get_results(backend, Q, n_layers, reps) ==
    /\ \E results \in RunResults(reps) :
          LET e == get_results_effect(self, results)
          IN  /\ self' = e.self
              /\ ret' = e.ret
              /\ reads' = e.reads
    /\ op' = "get_results"
    /\ args' = [backend |-> backend, Q |-> Q, n_layers |-> n_layers, n_reps |-> reps]
    /\ rand' = <<>>
    /\ accuracy_list' = NoList
    /\ UNCHANGED f

(***************************************************************************)
(* Toniq.get_reference                                                     *)
(***************************************************************************)
\* Lines 131-136: one entry per result, 0 when the lookup raises.
accuracy(results, dec_ground_state) ==
    [k \in DOMAIN results |->
        IF dec_ground_state \in DOMAIN results[k]
        THEN results[k][dec_ground_state]
        ELSE 0]

\* An exception of get_results (line 130) propagates: the try of line 133
\* covers only the lookup.  Past it, line 140 asks the Python list
\* accuracy_list for .size, which a list does not have, so lines 141-145 are
\* never run.
get_reference(Q, n_layers, n_points) ==
    /\ \E results \in RunResults(n_points) :
          LET dec_ground_state == ground_state(Q).dec_state
              e == get_results_effect(self, results)
          IN  /\ self' = e.self
              /\ reads' = e.reads
              /\ IF e.ret.kind = "raise"
                 THEN /\ ret' = e.ret
                      /\ accuracy_list' = NoList
                 ELSE /\ accuracy_list' =
                            [bound |-> TRUE, val |-> accuracy(e.ret.val, dec_ground_state)]
                      /\ ret' = Raise("AttributeError")
    /\ op' = "get_reference"
    /\ args' = [Q |-> Q, n_layers |-> n_layers, n_points |-> n_points]
    /\ rand' = <<>>
    /\ UNCHANGED f

(***************************************************************************)
(* Inputs drawn.                                                           *)
(***************************************************************************)
QVals == {-1, 0, 1}

SquareMatrices(dim) == [1..dim -> [1..dim -> QVals]]

\* Samples below 0, on and inside the first bins, just below 1.0, 1.0 itself
\* and above 1.0.
SampleVals == {-1, 0, 1, Grid, One - 1, One, One + 1}

SeqsUpTo(S, k) == UNION {[1..m -> S] : m \in 0..k}

\* Scorer inputs: outside the range on both sides, control points and points
\* between control points.
XVals == {-1, 0, 1, Grid, One \div 2, One - 1, One, One + 1}

\* The inputs of the object's life: 1 x 1 matrices and diag(2, 2), data sets
\* of at most one sample.
LifeQs == SquareMatrices(1) \cup {<<<<2, 0>>, <<0, 2>>>>}

LifeData == SeqsUpTo(SampleVals, 1)

(***************************************************************************)
(* Spec: one Toniq object and any sequence of calls on it.                 *)
(***************************************************************************)
Init ==
    /\ self = ToniqInit
    /\ op = "__init__"
    /\ args = <<>>
    /\ ret = None
    /\ reads = {}
    /\ rand = <<>>
    /\ accuracy_list = NoList
    /\ f = NoScorer

CallQMatrix ==
    \E dim \in 1..MaxDim, lower \in 0..MaxVal, upper \in 0..MaxVal :
        lower <= upper /\ get_Q_matirx(dim, lower, upper)

CallGroundState == \E Q \in LifeQs : get_ground_state(Q)

CallResults ==
    \E Q \in LifeQs, reps \in 0..MaxRuns : get_results("aer_simulator", Q, 1, reps)

CallReference ==
    \E Q \in LifeQs, n_points \in 0..MaxRuns : get_reference(Q, 1, n_points)

CallBuild == \E data \in LifeData : build_scoring_function(data)

CallScorer == \E x \in XVals : score(x)

Next ==
    \/ CallQMatrix
    \/ CallGroundState
    \/ CallResults
    \/ CallReference
    \/ CallBuild
    \/ CallScorer

Spec == Init /\ [][Next]_vars

(***************************************************************************)
(* SpecMatrix: get_Q_matirx on every (dim, lower, upper) drawn.            *)
(***************************************************************************)
InitMatrix ==
    /\ Init!1 /\ Init!2 /\ Init!4 /\ Init!5 /\ Init!6 /\ Init!7 /\ Init!8
    /\ args \in {[dim |-> dim, lower |-> lower, upper |-> upper] :
                    dim \in 1..MaxDim, lower \in 0..MaxVal, upper \in 0..MaxVal}
    /\ args.lower <= args.upper

NextMatrix == op = "__init__" /\ get_Q_matirx(args.dim, args.lower, args.upper)

SpecMatrix == InitMatrix /\ [][NextMatrix]_vars

(***************************************************************************)
(* SpecGround: get_ground_state on every square matrix drawn.              *)
(***************************************************************************)
InitGround ==
    /\ Init!1 /\ Init!2 /\ Init!4 /\ Init!5 /\ Init!6 /\ Init!7 /\ Init!8
    /\ args \in {[Q |-> Q] : Q \in UNION {SquareMatrices(dim) : dim \in 1..MaxDim}}

NextGround == op = "__init__" /\ get_ground_state(args.Q)

SpecGround == InitGround /\ [][NextGround]_vars

(***************************************************************************)
(* SpecCurve: build_scoring_function on every data set drawn, then calls   *)
(* of the scorer.                                                          *)
(***************************************************************************)
InitCurve ==
    /\ Init!1 /\ Init!2 /\ Init!4 /\ Init!5 /\ Init!6 /\ Init!7 /\ Init!8
    /\ args \in {[data |-> data] : data \in SeqsUpTo(SampleVals, MaxSamples)}

BuildDrawn == op = "__init__" /\ build_scoring_function(args.data)

NextCurve == BuildDrawn \/ CallScorer

SpecCurve == InitCurve /\ [][NextCurve]_vars

(***************************************************************************)
(* Properties.                                                             *)
(***************************************************************************)
BinaryVectors(n) == [1..n -> {0, 1}]

\* x^T Q x written out as the double sum over i and j.
QuadraticForm(Q, x) ==
    LET n == Len(Q)
        row(k) == (k - 1) \div n + 1
        col(k) == ((k - 1) % n) + 1
    IN  SumTo([k \in 1..(n * n) |-> x[row(k)] * Q[row(k)][col(k)] * x[col(k)]], n * n)

GroundReturned == op = "get_ground_state" /\ ret.kind = "return"

\* C1: the energy get_ground_state(Q) returns is at most x^T Q x for every
\* binary vector x of length n, and it is x^T Q x of the state enumerated at
\* the returned dec_state.
C1_GroundEnergyIsMinimal ==
    op = "get_ground_state" =>
        /\ ret.kind = "return"
        /\ \A x \in BinaryVectors(Len(args.Q)) :
              ret.val.energy <= QuadraticForm(args.Q, x)
        /\ ret.val.dec_state \in 0..(Pow2(Len(args.Q)) - 1)
        /\ ret.val.energy =
              QuadraticForm(args.Q,
                            all_quantum_states(Len(args.Q))[ret.val.dec_state + 1])

\* A 2 x 2 matrix whose minimum is negative and sits at the last index.
C1_Witness ==
    /\ GroundReturned
    /\ Len(args.Q) = 2
    /\ ret.val.dec_state = 3
    /\ ret.val.energy < 0

\* C2: when several binary vectors share the minimal energy, get_ground_state
\* returns the smallest decimal index among them.
C2_TieGoesToSmallestIndex ==
    GroundReturned =>
        \A k \in 0..(Pow2(Len(args.Q)) - 1) :
            QuadraticForm(args.Q, all_quantum_states(Len(args.Q))[k + 1])
                = ret.val.energy
            => ret.val.dec_state <= k

\* A tie for the minimum between the returned index, which is not 0, and a
\* larger one.
C2_Witness ==
    /\ GroundReturned
    /\ ret.val.dec_state > 0
    /\ \E k \in (ret.val.dec_state + 1)..(Pow2(Len(args.Q)) - 1) :
          QuadraticForm(args.Q, all_quantum_states(Len(args.Q))[k + 1])
              = ret.val.energy

IsCurve(c) ==
    /\ Len(c) = n_boxes + 1
    /\ c[1] = Frac(0, 1)
    /\ \A i \in 1..n_boxes : FLeq(c[i], c[i + 1])

\* C3: for a non-empty collection of accuracy samples get_reference returns
\* a curve of 201 entries that starts at 0 and never decreases.
C3_ReferenceIsCurve ==
    (op = "get_reference" /\ args.n_points >= 1) =>
        (ret.kind = "return" /\ IsCurve(ret.val))

\* C4: the curve get_reference returns agrees at every control point i/200
\* with the scorer build_scoring_function builds from the same accuracy
\* samples.
C4_ScorerAgreesWithReference ==
    op = "get_reference" =>
        /\ ret.kind = "return"
        /\ accuracy_list.bound
        /\ \A i \in 0..n_boxes :
              interp1d_call(interp1d(hist_x, score_curve(accuracy_list.val)), i * Grid)
                  = Return(ret.val[i + 1])

\* C5: the scorer raises for every x < 0 and every x > 1, and for x in [0, 1]
\* it returns a value in [0, 1].
C5_ScorerRange ==
    op = "f" =>
        /\ (args.x < 0 \/ args.x > One) => ret.kind = "raise"
        /\ (0 <= args.x /\ args.x <= One) =>
              /\ ret.kind = "return"
              /\ FLeq(Frac(0, 1), ret.val)
              /\ FLeq(ret.val, Frac(1, 1))

\* C6: building a curve or a scorer from an empty sample set fails: no
\* scorer or curve is returned.
C6_EmptyDataFails ==
    (\/ op = "build_scoring_function" /\ Len(args.data) = 0
     \/ op = "get_reference" /\ args.n_points = 0)
        => ret.kind = "raise"

BuiltFrom(k) ==
    /\ op = "build_scoring_function"
    /\ ret.kind = "return"
    /\ Len(args.data) >= k

LastValue == ret.val.y[n_boxes + 1]

C8_MatrixSymmetric ==
    op = "get_Q_matirx" =>
        /\ ret.kind = "return"
        /\ Len(ret.val) = args.dim
        /\ \A i \in 1..args.dim : Len(ret.val[i]) = args.dim
        /\ \A i, j \in 1..args.dim : ret.val[i][j] = ret.val[j][i]
        /\ \A i, j \in 1..args.dim :
              i <= j => ret.val[i][j] = rand[(i - 1) * args.dim + j]

\* A 2 x 2 matrix from draws that are not symmetric and have a non-zero
\* diagonal.
C8_Witness ==
    /\ op = "get_Q_matirx"
    /\ args.dim = 2
    /\ rand[2] # rand[3]
    /\ rand[1] # 0
    /\ ret.val[2][1] = rand[2]

\* C9: get_reference records one accuracy sample per run, so the number of
\* samples is the number of runs.
C9_OneSamplePerRun ==
    op = "get_reference" =>
        /\ accuracy_list.bound
        /\ Len(accuracy_list.val) = args.n_points

\* C10: no call reads or writes an attribute of the Toniq object.
C10_NoInstanceState ==
    /\ reads = {}
    /\ self = ToniqInit

====
